---- MODULE Spec2Model ----
(***************************************************************************)
(* Model of src/Task2_database.py: DatabaseSimulator, an in-memory         *)
(* key-value table (db) overlaid by a stack of uncommitted dicts (_cache). *)
(* A Python dict is a function whose DOMAIN is the set of its keys.        *)
(* The variables op, key, val, result, err record the last call, its       *)
(* arguments, its return value and whether it raised; afterBegin tells     *)
(* whether a commit was called right after a begin, and committed holds    *)
(* the overlays the last commit folded into db before clearing them.       *)
(* A DatabaseSimulatorPerf store (pdb, pcache) receives the same calls;    *)
(* presult and perr are what its last call returned and whether it raised, *)
(* tracing is tracemalloc's process-wide state and logged tells whether    *)
(* the last call emitted the log line of perf_profile.                     *)
(* snap is a history variable: the store as it was when the innermost      *)
(* overlay was begun, kept while only set, get and count calls follow.     *)
(* begins and rollbacks count the begin calls and the successful rollback  *)
(* calls made since the last successful commit (or since construction).    *)
(***************************************************************************)
EXTENDS Integers, Sequences, FiniteSets, TLC

VARIABLES db, cache, op, key, val, result, err, afterBegin, committed,
          pdb, pcache, presult, perr, tracing, logged, snap,
          begins, rollbacks

vars == <<db, cache, op, key, val, result, err, afterBegin, committed,
          pdb, pcache, presult, perr, tracing, logged, snap,
          begins, rollbacks>>

\* Bound on len(self._cache); the source has no cap.
MaxDepth == 2

\* Bound on the number of begin calls between two successful commits.
MaxBegins == 3

\* Python's None (the default of dict.get and the return of the mutators).
None == -1

\* Inputs of set/get.  0 is a falsy value, 1 and 2 are truthy.
Keys == {"a", "b"}
Values == {0, 1, 2}

\* The keys under which set may also store None (the other falsy value).
NoneKeys == {"a"}

\* Variant of Truthy: the test is `if _cache_value is not None:`.
IsNotNone(v) == v # None

\* bool(v) as used by `if _cache_value:`
Truthy(v) == v # None /\ v # 0

\* {}
EmptyDict == [k \in {} |-> None]

\* d.get(k, None)
DictGet(d, k) == IF k \in DOMAIN d THEN d[k] ELSE None

\* Variant of DictUpdate: d = dict(c), the table is replaced by the overlay.
DictReplace(d, c) == c

\* d.update(c)
DictUpdate(d, c) ==
    [k \in (DOMAIN d) \cup (DOMAIN c) |-> IF k \in DOMAIN c THEN c[k] ELSE d[k]]

\* d[k] = v
DictSet(d, k, v) ==
    [x \in (DOMAIN d) \cup {k} |-> IF x = k THEN v ELSE d[x]]

\* for _cache_db in reversed(self._cache): ... ; return self.db.get(key, None)
\* i is the 1-based index of the overlay being examined, Len(c) first.
RECURSIVE GetScan(_, _, _, _)
GetScan(d, c, k, i) ==
    IF i = 0
    THEN DictGet(d, k)
    ELSE LET _cache_value == DictGet(c[i], k)
         IN  IF Truthy(_cache_value)
             THEN _cache_value
             ELSE GetScan(d, c, k, i - 1)

\* DatabaseSimulator.get as a function of the store
GetValue(d, c, k) == GetScan(d, c, k, Len(c))

\* Variant of UpdateAll: the overlays are applied newest first, so that the
\* oldest overlay wins on a key collision.
RECURSIVE UpdateAllReversed(_, _, _)
UpdateAllReversed(d, c, i) ==
    IF i > Len(c)
    THEN d
    ELSE UpdateAllReversed(DictUpdate(d, c[Len(c) + 1 - i]), c, i + 1)

\* for cache in self._cache: self.db.update(cache)   (overlays i..Len(c))
RECURSIVE UpdateAll(_, _, _)
UpdateAll(d, c, i) ==
    IF i > Len(c) THEN d ELSE UpdateAll(DictUpdate(d, c[i]), c, i + 1)

\* len(self.db)
CountValue(d) == Cardinality(DOMAIN d)

\* Variant of PopLast: self._cache.pop(0), the oldest overlay is removed.
PopFirst(c) == SubSeq(c, 2, Len(c))

\* self._cache.pop()
PopLast(c) == SubSeq(c, 1, Len(c) - 1)

\* Variant of SetLast: self._cache[0][key] = value, the oldest overlay is
\* written.
SetFirst(c, k, v) == [c EXCEPT ![1] = DictSet(c[1], k, v)]

\* self._cache[-1][key] = value
SetLast(c, k, v) == [c EXCEPT ![Len(c)] = DictSet(c[Len(c)], k, v)]

\* No transaction is being followed.
NoSnap == [status |-> "none", db |-> EmptyDict, cache |-> << >>,
           writes |-> FALSE]

\* DatabaseSimulator.__init__
Init ==
    /\ snap = NoSnap
    /\ begins = 0
    /\ rollbacks = 0
    /\ pdb = EmptyDict
    /\ pcache = << >>
    /\ presult = None
    /\ perr = FALSE
    /\ tracing = FALSE
    /\ logged = FALSE
    /\ db = EmptyDict
    /\ cache = << >>
    /\ op = "init"
    /\ key = "a"
    /\ val = None
    /\ result = None
    /\ err = FALSE
    /\ afterBegin = FALSE
    /\ committed = << >>

\* Variant of Begin: self._cache.insert(0, {}), the new overlay becomes the
\* oldest one.
BeginAtFront ==
    /\ Len(cache) < MaxDepth
    /\ cache' = <<EmptyDict>> \o cache
    /\ db' = db
    /\ op' = "begin"
    /\ key' = "a"
    /\ val' = None
    /\ result' = None
    /\ err' = FALSE
    /\ afterBegin' = FALSE
    /\ committed' = << >>

\* DatabaseSimulator.begin
Begin ==
    /\ Len(cache) < MaxDepth
    /\ cache' = Append(cache, EmptyDict)
    /\ db' = db
    /\ op' = "begin"
    /\ key' = "a"
    /\ val' = None
    /\ result' = None
    /\ err' = FALSE
    /\ afterBegin' = FALSE
    /\ committed' = << >>

\* Variant of Count: the keys of the overlays are counted as well.
CountVisible ==
    /\ result' = Cardinality((DOMAIN db) \cup
                     UNION {DOMAIN cache[i] : i \in 1..Len(cache)})
    /\ op' = "count"
    /\ key' = "a"
    /\ val' = None
    /\ err' = FALSE
    /\ afterBegin' = FALSE
    /\ committed' = << >>
    /\ UNCHANGED <<db, cache>>

\* DatabaseSimulator.count
Count ==
    /\ result' = CountValue(db)
    /\ op' = "count"
    /\ key' = "a"
    /\ val' = None
    /\ err' = FALSE
    /\ afterBegin' = FALSE
    /\ committed' = << >>
    /\ UNCHANGED <<db, cache>>

\* Variant of Get: the scan consumes the stack (while self._cache:
\* self._cache.pop()), so a read discards the overlays.
GetPopping(k) ==
    /\ result' = GetValue(db, cache, k)
    /\ op' = "get"
    /\ key' = k
    /\ val' = None
    /\ err' = FALSE
    /\ afterBegin' = FALSE
    /\ committed' = << >>
    /\ cache' = << >>
    /\ db' = db

\* DatabaseSimulator.get
Get(k) ==
    /\ result' = GetValue(db, cache, k)
    /\ op' = "get"
    /\ key' = k
    /\ val' = None
    /\ err' = FALSE
    /\ afterBegin' = FALSE
    /\ committed' = << >>
    /\ UNCHANGED <<db, cache>>

\* Variant of Set: the value is also written through to self.db.
SetWriteThrough(k, v) ==
    /\ op' = "set"
    /\ key' = k
    /\ val' = v
    /\ result' = None
    /\ afterBegin' = FALSE
    /\ committed' = << >>
    /\ IF cache = << >>
       THEN /\ err' = TRUE
            /\ UNCHANGED <<db, cache>>
       ELSE /\ err' = FALSE
            /\ cache' = SetLast(cache, k, v)
            /\ db' = DictSet(db, k, v)

\* DatabaseSimulator.set
Set(k, v) ==
    /\ op' = "set"
    /\ key' = k
    /\ val' = v
    /\ result' = None
    /\ afterBegin' = FALSE
    /\ committed' = << >>
    /\ IF cache = << >>
       THEN /\ err' = TRUE
            /\ UNCHANGED <<db, cache>>
       ELSE /\ err' = FALSE
            /\ cache' = SetLast(cache, k, v)
            /\ db' = db

\* Variant of Commit: only the innermost overlay is folded into self.db and
\* popped, the older overlays stay pending.
CommitTopOnly ==
    /\ op' = "commit"
    /\ key' = "a"
    /\ val' = None
    /\ result' = None
    /\ afterBegin' = (op = "begin")
    /\ committed' = cache
    /\ IF cache = << >>
       THEN /\ err' = TRUE
            /\ UNCHANGED <<db, cache>>
       ELSE /\ err' = FALSE
            /\ db' = DictUpdate(db, cache[Len(cache)])
            /\ cache' = PopLast(cache)

\* DatabaseSimulator.commit
Commit ==
    /\ op' = "commit"
    /\ key' = "a"
    /\ val' = None
    /\ result' = None
    /\ afterBegin' = (op = "begin")
    /\ committed' = cache
    /\ IF cache = << >>
       THEN /\ err' = TRUE
            /\ UNCHANGED <<db, cache>>
       ELSE /\ err' = FALSE
            /\ db' = UpdateAll(db, cache, 1)
            /\ cache' = << >>

\* Variant of Rollback: the emptiness check is missing and the stack is
\* reset with self._cache = self._cache[:-1], which never raises.
RollbackNoCheck ==
    /\ op' = "rollback"
    /\ key' = "a"
    /\ val' = None
    /\ result' = None
    /\ afterBegin' = FALSE
    /\ committed' = << >>
    /\ err' = FALSE
    /\ cache' = PopLast(cache)
    /\ db' = db

\* Variant of Rollback: self._cache.clear(), every overlay is discarded.
RollbackClear ==
    /\ op' = "rollback"
    /\ key' = "a"
    /\ val' = None
    /\ result' = None
    /\ afterBegin' = FALSE
    /\ committed' = << >>
    /\ IF cache = << >>
       THEN /\ err' = TRUE
            /\ UNCHANGED <<db, cache>>
       ELSE /\ err' = FALSE
            /\ cache' = << >>
            /\ db' = db

\* DatabaseSimulator.rollback
Rollback ==
    /\ op' = "rollback"
    /\ key' = "a"
    /\ val' = None
    /\ result' = None
    /\ afterBegin' = FALSE
    /\ committed' = << >>
    /\ IF cache = << >>
       THEN /\ err' = TRUE
            /\ UNCHANGED <<db, cache>>
       ELSE /\ err' = FALSE
            /\ cache' = PopLast(cache)
            /\ db' = db

(***************************************************************************)
(* DatabaseSimulatorPerf: begin, count, get and rollback are inherited,    *)
(* set and commit are wrapped by perf_profile.                             *)
(***************************************************************************)

\* DatabaseSimulatorPerf.begin (inherited)
PerfBegin ==
    /\ pcache' = Append(pcache, EmptyDict)
    /\ pdb' = pdb
    /\ presult' = None
    /\ perr' = FALSE
    /\ logged' = FALSE
    /\ tracing' = tracing

\* DatabaseSimulatorPerf.count (inherited)
PerfCount ==
    /\ presult' = CountValue(pdb)
    /\ perr' = FALSE
    /\ logged' = FALSE
    /\ UNCHANGED <<pdb, pcache, tracing>>

\* DatabaseSimulatorPerf.get (inherited)
PerfGet(k) ==
    /\ presult' = GetValue(pdb, pcache, k)
    /\ perr' = FALSE
    /\ logged' = FALSE
    /\ UNCHANGED <<pdb, pcache, tracing>>

\* Variant of PerfSet: the wrapper catches the exception of the wrapped call
\* (try: result = func(...) except Exception: result = None) and returns.
PerfSetSwallow(k, v) ==
    /\ presult' = None
    /\ perr' = FALSE
    /\ tracing' = FALSE
    /\ logged' = TRUE
    /\ IF pcache = << >>
       THEN UNCHANGED <<pdb, pcache>>
       ELSE /\ pcache' = SetLast(pcache, k, v)
            /\ pdb' = pdb

\* DatabaseSimulatorPerf.set: perf_profile's wrapper around super().set.
\* tracemalloc.start(); result = func(...): an exception leaves the wrapper
\* at once, before tracemalloc.stop() and logger.info; otherwise the
\* wrapper stops tracing, logs and returns the result of the wrapped call.
PerfSet(k, v) ==
    /\ presult' = None
    /\ IF pcache = << >>
       THEN /\ perr' = TRUE
            /\ tracing' = TRUE
            /\ logged' = FALSE
            /\ UNCHANGED <<pdb, pcache>>
       ELSE /\ perr' = FALSE
            /\ pcache' = SetLast(pcache, k, v)
            /\ pdb' = pdb
            /\ tracing' = FALSE
            /\ logged' = TRUE

\* DatabaseSimulatorPerf.commit: perf_profile's wrapper around
\* super().commit.
PerfCommit ==
    /\ presult' = None
    /\ IF pcache = << >>
       THEN /\ perr' = TRUE
            /\ tracing' = TRUE
            /\ logged' = FALSE
            /\ UNCHANGED <<pdb, pcache>>
       ELSE /\ perr' = FALSE
            /\ pdb' = UpdateAll(pdb, pcache, 1)
            /\ pcache' = << >>
            /\ tracing' = FALSE
            /\ logged' = TRUE

\* DatabaseSimulatorPerf.rollback (inherited)
PerfRollback ==
    /\ presult' = None
    /\ logged' = FALSE
    /\ tracing' = tracing
    /\ IF pcache = << >>
       THEN /\ perr' = TRUE
            /\ UNCHANGED <<pdb, pcache>>
       ELSE /\ perr' = FALSE
            /\ pcache' = PopLast(pcache)
            /\ pdb' = pdb

(***************************************************************************)
(* The caller makes each call on the plain store and, with the same        *)
(* arguments, on the instrumented store.                                   *)
(***************************************************************************)

\* begin() opens a transaction: the store before the call is remembered.
TrackBegin ==
    snap' = [status |-> "open", db |-> db, cache |-> cache, writes |-> FALSE]

\* get(k) and count() inside the transaction being followed.
TrackRead ==
    snap' = IF snap.status = "open" THEN snap ELSE NoSnap

\* set(k, v) inside the transaction being followed.
TrackSet ==
    snap' = IF snap.status = "open" /\ cache # << >>
            THEN [snap EXCEPT !.writes = TRUE]
            ELSE NoSnap

\* commit() ends every transaction.
TrackCommit ==
    snap' = NoSnap

\* rollback() ends the transaction being followed.
TrackRollback ==
    snap' = IF snap.status = "open" /\ cache # << >>
            THEN [snap EXCEPT !.status = "rolledback"]
            ELSE NoSnap

\* One more begin call since the last successful commit.
TallyBegin ==
    /\ begins < MaxBegins
    /\ begins' = begins + 1
    /\ rollbacks' = rollbacks

\* get, count and set calls are not counted.
TallyOther ==
    UNCHANGED <<begins, rollbacks>>

\* A successful commit starts a new period; a failed one counts nothing.
TallyCommit ==
    IF cache = << >>
    THEN UNCHANGED <<begins, rollbacks>>
    ELSE begins' = 0 /\ rollbacks' = 0

\* One more successful rollback; a failed one counts nothing.
TallyRollback ==
    IF cache = << >>
    THEN UNCHANGED <<begins, rollbacks>>
    ELSE rollbacks' = rollbacks + 1 /\ begins' = begins

CallBegin == Begin /\ PerfBegin /\ TrackBegin /\ TallyBegin

CallCount == Count /\ PerfCount /\ TrackRead /\ TallyOther

CallGet(k) == Get(k) /\ PerfGet(k) /\ TrackRead /\ TallyOther

CallSet(k, v) == Set(k, v) /\ PerfSet(k, v) /\ TrackSet /\ TallyOther

CallCommit == Commit /\ PerfCommit /\ TrackCommit /\ TallyCommit

CallRollback == Rollback /\ PerfRollback /\ TrackRollback /\ TallyRollback

Next ==
    \/ CallBegin
    \/ CallCount
    \/ \E k \in Keys : CallGet(k)
    \/ \E k \in Keys, v \in Values : CallSet(k, v)
    \/ CallCommit
    \/ CallRollback

Spec == Init /\ [][Next]_vars

\* set(k, None): None is a value like any other for set.
CallSetNone(k) == CallSet(k, None)

\* The calls of Next and, in addition, set calls that store None.
NextFalsy ==
    \/ Next
    \/ \E k \in NoneKeys : CallSetNone(k)

SpecFalsy == Init /\ [][NextFalsy]_vars

TypeOK ==
    /\ DOMAIN db \subseteq Keys
    /\ \A k \in DOMAIN db : db[k] \in Values \cup {None}
    /\ Len(cache) <= MaxDepth
    /\ \A i \in 1..Len(cache) :
          /\ DOMAIN cache[i] \subseteq Keys
          /\ \A k \in DOMAIN cache[i] : cache[i][k] \in Values \cup {None}
    /\ op \in {"init", "begin", "count", "get", "set", "commit", "rollback"}
    /\ key \in Keys
    /\ val \in Values \cup {None}
    /\ result \in Values \cup {None} \cup (0..Cardinality(Keys))
    /\ err \in BOOLEAN
    /\ afterBegin \in BOOLEAN
    /\ Len(committed) <= MaxDepth

(***************************************************************************)
(* Properties                                                              *)
(***************************************************************************)

\* The overlays of c that hold key k, as indices.
Holders(c, k) == {i \in 1..Len(c) : k \in DOMAIN c[i]}

\* The largest element of a non-empty set of integers.
MaxOf(S) == CHOOSE i \in S : \A j \in S : j <= i

\* The value a read of k should give by priority: innermost overlay that
\* contains k, else the base table, else None.
Resolve(d, c, k) ==
    IF Holders(c, k) # {}
    THEN c[MaxOf(Holders(c, k))][k]
    ELSE IF k \in DOMAIN d THEN d[k] ELSE None

\* C1: every get(k) returns the value of the innermost overlay that contains
\* k, else the base table's value, else None, also for falsy stored values.
C1_GetReturnsInnermost ==
    (op = "get") => (result = Resolve(db, cache, key))

\* C2: a successful commit() leaves the base table equal to the old base
\* overwritten by overlay 0, 1, ..., n-1 in that order (newest overlay wins,
\* keys in no overlay keep their base value) and empties the whole stack.
C2_CommitFlattensAll ==
    [][ (op' = "commit" /\ ~err') =>
          /\ cache # << >>
          /\ cache' = << >>
          /\ DOMAIN db' = (DOMAIN db) \cup {k \in Keys : Holders(cache, k) # {}}
          /\ \A k \in DOMAIN db' :
                db'[k] = IF Holders(cache, k) # {}
                         THEN cache[MaxOf(Holders(cache, k))][k]
                         ELSE db[k] ]_vars

\* C2 witness: a commit of two overlays that wrote different values for the
\* same key, while another base key was written by no overlay.
C2_Witness ==
    /\ op = "commit" /\ ~err /\ cache = << >>
    /\ Len(committed) = 2
    /\ "a" \in DOMAIN committed[1] /\ "a" \in DOMAIN committed[2]
    /\ committed[1]["a"] # committed[2]["a"]
    /\ Holders(committed, "b") = {}
    /\ DOMAIN db = {"a", "b"} /\ db["a"] = committed[2]["a"]

\* C3: a successful rollback() removes exactly the innermost overlay: the
\* stack becomes the first n-1 overlays of the old stack, unchanged, and the
\* base table is unchanged.
C3_RollbackPopsInnermost ==
    [][ (op' = "rollback" /\ ~err') =>
          /\ Len(cache) >= 1
          /\ Len(cache') = Len(cache) - 1
          /\ \A i \in 1..Len(cache') : cache'[i] = cache[i]
          /\ db' = db ]_vars

\* C3 witness: a rollback that left one older, non-empty overlay in place.
C3_Witness ==
    /\ op = "rollback" /\ ~err
    /\ Len(cache) = 1 /\ DOMAIN cache[1] # {}
    /\ DOMAIN db # {}

\* C4: a successful set(k, v) writes k -> v into the innermost overlay only:
\* depth, other keys of that overlay, older overlays and base are unchanged.
C4_SetInnermostOnly ==
    [][ (op' = "set" /\ ~err') =>
          /\ Len(cache) >= 1
          /\ Len(cache') = Len(cache)
          /\ \A i \in 1..(Len(cache) - 1) : cache'[i] = cache[i]
          /\ DOMAIN cache'[Len(cache)] = (DOMAIN cache[Len(cache)]) \cup {key'}
          /\ cache'[Len(cache)][key'] = val'
          /\ \A x \in (DOMAIN cache[Len(cache)]) \ {key'} :
                cache'[Len(cache)][x] = cache[Len(cache)][x]
          /\ db' = db ]_vars

\* C4 witness: a set at depth 2 whose key is also held, with another value,
\* by the older overlay and by the base table, next to another key in the
\* innermost overlay.
C4_Witness ==
    /\ op = "set" /\ ~err /\ Len(cache) = 2
    /\ key \in DOMAIN cache[1] /\ cache[1][key] # val
    /\ key \in DOMAIN db /\ db[key] # val
    /\ DOMAIN cache[2] = Keys

\* C5: on an empty stack set, commit and rollback raise and leave the base
\* table and the empty stack unchanged; on a non-empty stack none raises.
C5_NoActiveTransaction ==
    [][ (op' \in {"set", "commit", "rollback"}) =>
          /\ err' <=> (cache = << >>)
          /\ err' => (db' = db /\ cache' = cache) ]_vars

\* C5 witness: a call that raised on an empty stack over a non-empty base.
C5_Witness ==
    /\ op = "rollback" /\ err
    /\ cache = << >> /\ DOMAIN db # {}

\* C6: the base table, and so the value of count(), changes only in a step
\* that is a successful commit().
C6_BaseChangesOnlyOnCommit ==
    [][ ~(op' = "commit" /\ ~err') =>
          /\ db' = db
          /\ Cardinality(DOMAIN db') = Cardinality(DOMAIN db) ]_vars

\* C6 witness: a successful set whose write is not in the base table.
C6_Witness ==
    /\ op = "set" /\ ~err
    /\ DOMAIN db # {}
    /\ key \notin DOMAIN db
    /\ cache[Len(cache)][key] = val

\* C7: begin() never raises, appends one empty overlay as the innermost
\* element (depth + 1) and leaves existing overlays and base unchanged.
C7_BeginPushesEmpty ==
    [][ (op' = "begin") =>
          /\ ~err'
          /\ Len(cache') = Len(cache) + 1
          /\ DOMAIN cache'[Len(cache')] = {}
          /\ \A i \in 1..Len(cache) : cache'[i] = cache[i]
          /\ db' = db ]_vars

\* C7 witness: a begin on top of a non-empty overlay and a non-empty base.
C7_Witness ==
    /\ op = "begin" /\ ~err
    /\ Len(cache) = 2 /\ DOMAIN cache[1] # {} /\ DOMAIN cache[2] = {}
    /\ DOMAIN db # {}

\* C8: count() returns the number of keys of the base table; keys that are
\* only in overlays are not counted.
C8_CountIsBaseSize ==
    (op = "count") => (result = Cardinality({k \in Keys : k \in DOMAIN db}))

\* C8 witness: a count taken while an overlay holds a key the base lacks.
C8_Witness ==
    /\ op = "count" /\ result = 1
    /\ \E i \in 1..Len(cache) : \E k \in DOMAIN cache[i] : k \notin DOMAIN db

\* C9: get(k) and count() never raise and leave the base table and the
\* overlay stack as they were.
C9_ReadsArePure ==
    [][ (op' \in {"get", "count"}) =>
          /\ ~err'
          /\ db' = db
          /\ cache' = cache ]_vars

\* C9 witness: a get of a key that is absent everywhere, on a non-empty
\* stack over a non-empty base.
C9_Witness ==
    /\ op = "get" /\ ~err /\ result = None
    /\ Len(cache) = 2 /\ DOMAIN cache[1] # {}
    /\ DOMAIN db # {} /\ key \notin DOMAIN db

\* Every write pending in the overlays of c already is the value of d.
AgreesWith(c, d) ==
    \A i \in 1..Len(c) : \A k \in DOMAIN c[i] :
        k \in DOMAIN d /\ d[k] = c[i][k]

\* C10 as stated: from any reachable state, commit() right after begin()
\* leaves the base table unchanged and clears the stack.
C10_CommitAfterBeginKeepsBase ==
    [][ (op = "begin" /\ op' = "commit") =>
          (db' = db /\ cache' = << >>) ]_vars

\* C10 amended: commit() right after begin() clears the stack, and leaves
\* the base table unchanged when every write pending in the older overlays
\* already equals the base table's value (as when the stack was empty
\* before the begin).
C10_CommitAfterBeginAmended ==
    [][ (op = "begin" /\ op' = "commit") =>
          /\ ~err'
          /\ cache' = << >>
          /\ AgreesWith(cache, db) => db' = db ]_vars

\* C10 witness: a commit right after a begin on an empty stack, over a
\* non-empty base table.
C10_Witness ==
    /\ op = "commit" /\ ~err /\ afterBegin
    /\ Len(committed) = 1 /\ DOMAIN committed[1] = {}
    /\ DOMAIN db # {} /\ cache = << >>

\* C11: run on the same calls, the instrumented store and the plain store
\* have the same base table and overlay stack after every call, the call
\* returned the same result, and it raised in the one exactly when it raised
\* in the other (set and commit on an empty stack), the state unchanged.
C11_PerfEquivalent ==
    /\ pdb = db
    /\ pcache = cache
    /\ presult = result
    /\ perr = err
    /\ (perr /\ op \in {"set", "commit"}) => (pcache = << >> /\ ~logged)

\* C11 witness: a wrapped set raised on the empty stack of both stores,
\* after wrapped calls had committed two keys to both base tables.
C11_Witness ==
    /\ op = "set" /\ err /\ perr /\ tracing
    /\ DOMAIN pdb = Keys /\ DOMAIN db = Keys
    /\ pcache = << >>

\* The values Python takes for false among the stored ones.
Falsy == {0, None}

\* The overlays of c that hold a truthy value for key k, as indices.
TruthyHolders(c, k) == {i \in Holders(c, k) : c[i][k] \notin Falsy}

C12_SkipsToOlderOverlay ==
    /\ op = "get" /\ Len(cache) = 2
    /\ key \in DOMAIN cache[2] /\ cache[2][key] = 0
    /\ key \in DOMAIN cache[1] /\ cache[1][key] = 2
    /\ key \in DOMAIN db /\ db[key] = 1
    /\ result = 2

\* C13: read-your-writes: a get(k) made right after a successful set(k, v)
\* returns v, whatever older overlays and the base table hold for k.
C13_ReadYourWrites ==
    [][ (op = "set" /\ ~err /\ op' = "get" /\ key' = key) =>
          (result' = val) ]_vars

\* C14: a successful commit() does not change what get returns, for any key.
C14_CommitKeepsReads ==
    [][ (op' = "commit" /\ ~err') =>
          \A k \in Keys :
              GetValue(db', cache', k) = GetValue(db, cache, k) ]_vars

\* C15: begin(), then any number of set calls, then rollback() restores the
\* base table and the whole overlay stack to what they were before the
\* begin, so every get returns what it returned before the begin.
C15_RollbackLeavesNoTrace ==
    (snap.status = "rolledback") =>
        /\ db = snap.db
        /\ cache = snap.cache
        /\ \A k \in Keys :
              GetValue(db, cache, k) = GetValue(snap.db, snap.cache, k)

\* C15 witness: a transaction begun on top of a pending overlay and a
\* non-empty base table was written to and then rolled back.
C15_Witness ==
    /\ snap.status = "rolledback" /\ snap.writes
    /\ op = "rollback" /\ ~err
    /\ Len(cache) = 1 /\ DOMAIN cache[1] # {}
    /\ DOMAIN db # {}

\* C16: from a fresh store, the stack depth always equals the begin calls
\* minus the successful rollback calls made since the last successful commit
\* (or construction); it is never negative; it is 0 right after a successful
\* commit, and a set, commit or rollback made next (no begin first) raises.
C16_DepthIsBeginsMinusRollbacks ==
    /\ [](/\ Len(cache) = begins - rollbacks
          /\ begins - rollbacks >= 0
          /\ (op = "commit" /\ ~err) => (Len(cache) = 0 /\ begins = 0))
    /\ [][ (op = "commit" /\ ~err /\ op' \in {"set", "commit", "rollback"})
             => err' ]_vars

\* C16 witness: in a period that follows a commit, three begins and two
\* rollbacks left the stack at depth 1.
C16_Witness ==
    /\ op = "rollback" /\ ~err
    /\ begins = 3 /\ rollbacks = 2 /\ Len(cache) = 1
    /\ DOMAIN db # {}

\* C17: no call removes a key from the base table: its key set only grows,
\* so count() never decreases, and a successful commit makes it the old key
\* set united with the keys of every committed overlay.
C17_BaseKeysOnlyGrow ==
    [][ /\ (DOMAIN db) \subseteq (DOMAIN db')
        /\ CountValue(db') >= CountValue(db)
        /\ (op' = "commit" /\ ~err') =>
              (DOMAIN db' = (DOMAIN db) \cup
                    UNION {DOMAIN cache[i] : i \in 1..Len(cache)}) ]_vars

\* C17 witness: a commit added a key to a base table that already held
\* another key, which no committed overlay wrote.
C17_Witness ==
    /\ op = "commit" /\ ~err
    /\ Len(committed) = 2
    /\ UNION {DOMAIN committed[i] : i \in 1..Len(committed)} = {"b"}
    /\ DOMAIN db = {"a", "b"}
====
